---- MODULE Spec2Model ----
(***************************************************************************)
(* Session registry, matchmaking queue, rematch handshake and board engine *)
(* of the Telegram tic-tac-toe server (GameManager, GameLogic and the      *)
(* Socket.IO handlers that drive them).                                    *)
(*                                                                         *)
(* One Player object exists per connection (it is built once in the        *)
(* 'connection' callback and handed by reference to every call), so the    *)
(* fields the code mutates on it, symbol and isReady, are state of the     *)
(* connection and are shared by every room whose player list holds it.     *)
(***************************************************************************)
EXTENDS Integers, Sequences, FiniteSets, Bags, TLC

\* ------------------------------------------------------------------ bounds
NumConns == 3
MaxUuid == 4
MaxSpectators == 1
MaxPending == 2
NumPeers == 2
MaxUuidLong == 6
MaxUuidLobby == 6
MaxUuidWide == 5

Conns == 1 .. NumConns
Uuids == 1 .. MaxUuid
Peers == 1 .. NumPeers
Idx == 0 .. 2
NULL == "null"
Marks == {"X", "O"}

VARIABLES
    rooms,            \* GameManager.rooms: roomId -> [game, spectators]
    playerRooms,      \* GameManager.playerRooms: connection id -> roomId
    matchmakingQueue, \* GameManager.matchmakingQueue
    symbol,           \* Player.symbol of each connection's Player object
    isReady,          \* Player.isReady of each connection's Player object
    uuidCount,        \* number of uuidv4() values drawn so far
    pending,          \* makeMove invocations suspended at an await (a bag)
    saveGameCalls,    \* db.saveGame invocations: game id -> [count, game]
    statsCalls,       \* db.updatePlayerStats invocations: game id -> calls
    socketRooms,      \* Socket.IO rooms each connection's socket has joined
    rematchButtons,   \* client: the accept / decline rematch buttons are shown
    argBoard,         \* the board a direct call of GameLogic.checkGameResult is given
    retResult,        \* what that call returned
    retStats          \* what a direct call of GameLogic.getGameStats on it
                      \* returned, as a sequence: empty before the call

registry == <<rooms, playerRooms, matchmakingQueue, symbol, isReady, uuidCount>>
persistence == <<pending, saveGameCalls, statsCalls>>
gateway == <<socketRooms, rematchButtons>>
engine == <<argBoard, retResult, retStats>>
vars == <<rooms, playerRooms, matchmakingQueue, symbol, isReady, uuidCount,
          pending, saveGameCalls, statsCalls, socketRooms, rematchButtons,
          argBoard, retResult, retStats>>

\* ------------------------------------------------------------- sequences
RECURSIVE filterOut(_, _)
\* Array.filter(x => x !== c)
filterOut(s, c) ==
    IF s = <<>> THEN <<>>
    ELSE IF Head(s) = c THEN filterOut(Tail(s), c)
         ELSE <<Head(s)>> \o filterOut(Tail(s), c)

Range(s) == {s[i] : i \in DOMAIN s}

\* Array.indexOf (1-based; 0 when absent)
indexOf(s, c) ==
    IF c \in Range(s) THEN CHOOSE i \in DOMAIN s : s[i] = c /\ \A j \in 1 .. i - 1 : s[j] # c
    ELSE 0

\* A mutation of spliceOne: nothing is removed.
spliceNone(s, i) == s

\* Array.splice(i, 1)
spliceOne(s, i) == [k \in 1 .. Len(s) - 1 |-> IF k < i THEN s[k] ELSE s[k + 1]]

\* ---------------------------------------------------------- board engine
createEmptyBoard == [r \in Idx |-> [c \in Idx |-> NULL]]

\* A mutation of isValidMove: only the bounds are checked.
isInBounds(board, row, col) == ~(row < 0 \/ row > 2 \/ col < 0 \/ col > 2)

isValidMove(board, row, col) ==
    IF row < 0 \/ row > 2 \/ col < 0 \/ col > 2 THEN FALSE
    ELSE board[row][col] = NULL

\* A mutation of rowWin: the third cell of the row is not compared.
rowWinFirstTwo(board, r) == board[r][0] # NULL /\ board[r][0] = board[r][1]

rowWin(board, r) ==
    board[r][0] # NULL /\ board[r][0] = board[r][1] /\ board[r][1] = board[r][2]

colWin(board, c) ==
    board[0][c] # NULL /\ board[0][c] = board[1][c] /\ board[1][c] = board[2][c]

diagWin(board) ==
    board[0][0] # NULL /\ board[0][0] = board[1][1] /\ board[1][1] = board[2][2]

antiWin(board) ==
    board[0][2] # NULL /\ board[0][2] = board[1][1] /\ board[1][1] = board[2][0]

isBoardFull(board) == \A r \in Idx : \A c \in Idx : board[r][c] # NULL

checkGameResult(board) ==
    IF \E r \in Idx : rowWin(board, r)
    THEN board[CHOOSE r \in Idx : rowWin(board, r) /\ \A q \in 0 .. r - 1 : ~rowWin(board, q)][0]
    ELSE IF \E c \in Idx : colWin(board, c)
    THEN board[0][CHOOSE c \in Idx : colWin(board, c) /\ \A q \in 0 .. c - 1 : ~colWin(board, q)]
    ELSE IF diagWin(board) THEN board[0][0]
    ELSE IF antiWin(board) THEN board[0][2]
    ELSE IF isBoardFull(board) THEN "draw"
    ELSE NULL

\* ------------------------------------------------------- registry state
\* The registry and the Player objects as one value, so that an operation
\* that calls another (findMatch -> joinRoom / createRoom) composes.
\* ret is the value the operation returns.
NoRet == [success |-> FALSE, error |-> "", roomId |-> 0]

Cur ==
    [rooms |-> rooms, playerRooms |-> playerRooms, queue |-> matchmakingQueue,
     symbol |-> symbol, isReady |-> isReady, uuid |-> uuidCount,
     pending |-> pending, saveGameCalls |-> saveGameCalls, statsCalls |-> statsCalls,
     ret |-> NoRet]

Ok(roomId) == [success |-> TRUE, error |-> "", roomId |-> roomId]
Err(msg) == [success |-> FALSE, error |-> msg, roomId |-> 0]

setKey(f, k, v) == [x \in (DOMAIN f) \cup {k} |-> IF x = k THEN v ELSE f[x]]

\* A mutation of delKey: the entry stays.
keepKey(f, k) == f

\* Map.delete(k)
delKey(f, k) == [x \in (DOMAIN f) \ {k} |-> f[x]]

createRoom(st, c) ==
    LET roomId == st.uuid + 1
        game == [id |-> st.uuid + 2, players |-> <<c>>, board |-> createEmptyBoard,
                 currentPlayer |-> "X", status |-> "waiting", result |-> NULL]
        room == [game |-> game, spectators |-> <<>>]
    IN [st EXCEPT !.rooms = setKey(st.rooms, roomId, room),
                  !.playerRooms = setKey(st.playerRooms, c, roomId),
                  !.uuid = st.uuid + 2,
                  !.ret = Ok(roomId)]

\* GameLogic.createNewGame on the state: the two assignments to symbol are
\* made in order (player2's last), then the game record is built.
createNewGame(st, roomId, player1, player2, isPlayer1X) ==
    LET sym1 == [st.symbol EXCEPT ![player1] = IF isPlayer1X THEN "X" ELSE "O"]
        sym2 == [sym1 EXCEPT ![player2] = IF isPlayer1X THEN "O" ELSE "X"]
        game == [id |-> st.uuid + 1, players |-> <<player1, player2>>,
                 board |-> createEmptyBoard, currentPlayer |-> "X",
                 status |-> "playing", result |-> NULL]
    IN [st EXCEPT !.symbol = sym2, !.uuid = st.uuid + 1,
                  !.rooms = [st.rooms EXCEPT ![roomId].game = game]]

\* A mutation of roomIsFull: the capacity test is off by one.
roomIsFullOffByOne(players) == Len(players) > 2

\* room.game.players.length >= 2
roomIsFull(players) == Len(players) >= 2

\* A mutation of roomNotFound: the caller is mapped to the id all the same.
roomNotFoundMaps(st, roomId, c) ==
    [st EXCEPT !.playerRooms = setKey(st.playerRooms, c, roomId),
               !.ret = Err("Room not found")]

\* if (!room) return { success: false, error: 'Room not found' }
roomNotFound(st, roomId, c) == [st EXCEPT !.ret = Err("Room not found")]

joinRoom(st, roomId, c, isPlayer1X) ==
    IF roomId \notin DOMAIN st.rooms THEN roomNotFound(st, roomId, c)
    ELSE IF roomIsFull(st.rooms[roomId].game.players)
    THEN [st EXCEPT !.rooms = [st.rooms EXCEPT ![roomId].spectators = Append(@, c)],
                    !.ret = Ok(roomId)]
    ELSE LET pushed == [st EXCEPT
                          !.rooms = [st.rooms EXCEPT ![roomId].game.players = Append(@, c)],
                          !.playerRooms = setKey(st.playerRooms, c, roomId),
                          !.ret = Ok(roomId)]
             ps == pushed.rooms[roomId].game.players
         IN IF Len(ps) = 2 THEN createNewGame(pushed, roomId, ps[1], ps[2], isPlayer1X)
            ELSE pushed

\* A mutation of shift: the head is read and stays in the queue.
peek(q) == q

\* What Array.shift() leaves: the queue without its head.
shift(q) == Tail(q)

\* A mutation of push: the id is appended twice.
pushTwice(q, c) == q \o <<c, c>>

\* Array.push(c)
push(q, c) == Append(q, c)

\* No one waiting: createRoom(player), push, return { matched: false }.
enqueue(st, c) ==
    LET cr == createRoom(st, c)
    IN [cr EXCEPT !.queue = push(cr.queue, c), !.ret = Err("")]

\* A mutation of fallback: the caller gets no room and no queue entry.
fallbackDrops(st, c) == [st EXCEPT !.ret = Err("")]

\* Matching failed: createRoom(player), push, return { matched: false }.
fallback(st, c) == enqueue(st, c)

findMatch(st, c, isPlayer1X) ==
    LET existingIndex == indexOf(st.queue, c)
        q1 == IF existingIndex # 0 THEN spliceOne(st.queue, existingIndex) ELSE st.queue
        s1 == [st EXCEPT !.queue = q1]
    IN IF Len(q1) > 0
       THEN LET waitingPlayerId == Head(q1)
                s2 == [s1 EXCEPT !.queue = shift(q1)]
            IN IF /\ waitingPlayerId \in DOMAIN s2.playerRooms
                  /\ s2.playerRooms[waitingPlayerId] \in DOMAIN s2.rooms
                  /\ Len(s2.rooms[s2.playerRooms[waitingPlayerId]].game.players) = 1
               THEN joinRoom(s2, s2.playerRooms[waitingPlayerId], c, isPlayer1X)
               ELSE fallback(s2, c)
       ELSE enqueue(s1, c)

\* Array.find(p => p.id === playerId) finds an entry iff the id is listed.
findPlayer(players, c) == c \in Range(players)

\* A mutation of moveError: the cell is checked before the turn.
moveErrorCellFirst(st, game, c, row, col) ==
    IF game.status # "playing" THEN "Game is not active"
    ELSE IF ~findPlayer(game.players, c) THEN "Player not found"
    ELSE IF ~isValidMove(game.board, row, col) THEN "Invalid move"
    ELSE IF st.symbol[c] # game.currentPlayer THEN "Not your turn"
    ELSE ""

\* The error GameLogic.makeMove returns, "" when the move is accepted.
moveError(st, game, c, row, col) ==
    IF game.status # "playing" THEN "Game is not active"
    ELSE IF ~findPlayer(game.players, c) THEN "Player not found"
    ELSE IF st.symbol[c] # game.currentPlayer THEN "Not your turn"
    ELSE IF ~isValidMove(game.board, row, col) THEN "Invalid move"
    ELSE ""

\* A mutation of endGame: the status is set and the result is not stored.
endGameNoResult(game, result) == [game EXCEPT !.status = "finished"]

\* game.result = result; game.status = 'finished'
endGame(game, result) == [game EXCEPT !.result = result, !.status = "finished"]

\* A mutation of switchTurn: the turn stays with the mark that moved.
keepTurn(currentPlayer) == currentPlayer

\* game.currentPlayer === 'X' ? 'O' : 'X'
switchTurn(currentPlayer) == IF currentPlayer = "X" THEN "O" ELSE "X"

\* A mutation of applyMove: the cell is written, the turn and the status are
\* left for later.
applyMoveCellOnly(st, game, c, row, col) ==
    [game EXCEPT !.board = [game.board EXCEPT ![row][col] = st.symbol[c]]]

\* A mutation of applyMove: the cell is written and the turn passes, the
\* board is not examined for a win or a draw.
applyMoveNoCheck(st, game, c, row, col) ==
    [game EXCEPT !.board = [game.board EXCEPT ![row][col] = st.symbol[c]],
                 !.currentPlayer = switchTurn(game.currentPlayer)]

\* GameLogic.makeMove once the checks have passed.
applyMove(st, game, c, row, col) ==
    LET board == [game.board EXCEPT ![row][col] = st.symbol[c]]
        result == checkGameResult(board)
        moved == [game EXCEPT !.board = board]
    IN IF result # NULL
       THEN endGame(moved, result)
       ELSE [moved EXCEPT !.currentPlayer = switchTurn(game.currentPlayer)]

\* A mutation of refuse: the refused move still passes the turn.
refuseAndPassTurn(st, roomId, e) ==
    [st EXCEPT !.ret = Err(e),
               !.rooms = [st.rooms EXCEPT ![roomId].game.currentPlayer = switchTurn(@)]]

\* if (!moveResult.success) return { success: false, error: moveResult.error }
refuse(st, roomId, e) == [st EXCEPT !.ret = Err(e)]

\* The row db.saveGame builds, synchronously, from its arguments.
snapshot(game) ==
    [board |-> game.board, currentPlayer |-> game.currentPlayer, status |-> game.status,
     result |-> game.result, player1 |-> game.players[1], player2 |-> game.players[2]]

\* this.db.saveGame(room.game, player1.telegramId, player2.telegramId) is invoked.
saveGame(st, game) ==
    LET old == st.saveGameCalls
        n == IF game.id \in DOMAIN old THEN old[game.id].count ELSE 0
    IN [st EXCEPT !.saveGameCalls =
                     setKey(old, game.id, [count |-> n + 1, game |-> snapshot(game)])]

\* this.db.updatePlayerStats(player.telegramId, outcome) is invoked while
\* GameManager.updatePlayerStats works on the game with id gameId.
dbUpdatePlayerStats(st, gameId, call) ==
    LET old == st.statsCalls
    IN [st EXCEPT !.statsCalls =
                     setKey(old, gameId,
                            Append(IF gameId \in DOMAIN old THEN old[gameId] ELSE <<>>, call))]

\* The invocation stops at an await; k is what it resumes with.
suspend(st, k) == [st EXCEPT !.pending = @ (+) SetToBag({k})]

\* Array.find(p => p.symbol === mark) / (p => p.symbol !== mark): the index
\* of the first such entry, 0 when there is none.
findSymbol(st, players, mark, same) ==
    LET hits == {i \in DOMAIN players : (st.symbol[players[i]] = mark) = same}
    IN IF hits = {} THEN 0 ELSE CHOOSE i \in hits : \A j \in hits : i <= j

\* The db.updatePlayerStats calls GameManager.updatePlayerStats makes, in
\* order, when none of them fails. The players and the result are read before
\* the first await. With a draw and one listed player the first call is made
\* and reading player2.telegramId then throws inside the try; with no listed
\* player reading player1.telegramId throws before any call.
statsPlan(st, game) ==
    LET players == game.players
    IN IF game.result = "draw"
       THEN [i \in 1 .. (IF Len(players) < 2 THEN Len(players) ELSE 2) |->
                <<players[i], "draw">>]
       ELSE IF game.result \in Marks
       THEN LET winner == findSymbol(st, players, game.result, TRUE)
                loser == findSymbol(st, players, game.result, FALSE)
            IN IF winner # 0 /\ loser # 0
               THEN << <<players[winner], "win">>, <<players[loser], "loss">> >>
               ELSE <<>>
       ELSE <<>>

\* GameManager.updatePlayerStats up to its first await.
updatePlayerStats(st, roomId, game) ==
    LET plan == statsPlan(st, game)
    IN IF plan = <<>> THEN st
       ELSE suspend(dbUpdatePlayerStats(st, game.id, Head(plan)),
                    [room |-> roomId, at |-> "updatePlayerStats",
                     game |-> game.id, rest |-> Tail(plan)])

\* GameManager.makeMove after its try / catch around saveGame: room is the
\* object looked up before the await and room.game is read again. A room that
\* has left the registry in the meantime lists no player (leaveRoom deletes a
\* room only after emptying its player list), so updatePlayerStats on it
\* makes no call.
afterSave(st, roomId) ==
    IF roomId \notin DOMAIN st.rooms THEN st
    ELSE IF st.rooms[roomId].game.status = "finished"
    THEN updatePlayerStats(st, roomId, st.rooms[roomId].game)
    ELSE st

\* GameManager.makeMove up to its first await. With fewer than 2 listed
\* players reading player2.telegramId throws inside the try, before saveGame
\* is invoked, and the invocation goes on without suspending.
makeMove(st, c, row, col) ==
    IF c \notin DOMAIN st.playerRooms THEN [st EXCEPT !.ret = Err("Player not in any room")]
    ELSE LET roomId == st.playerRooms[c]
         IN IF roomId \notin DOMAIN st.rooms THEN [st EXCEPT !.ret = Err("Room not found")]
            ELSE LET game == st.rooms[roomId].game
                     e == moveError(st, game, c, row, col)
                 IN IF e # "" THEN refuse(st, roomId, e)
                    ELSE LET after == applyMove(st, game, c, row, col)
                             moved == [st EXCEPT !.rooms = [st.rooms EXCEPT ![roomId].game = after],
                                                 !.ret = Ok(roomId)]
                         IN IF Len(after.players) >= 2
                            THEN suspend(saveGame(moved, after),
                                         [room |-> roomId, at |-> "saveGame",
                                          game |-> after.id, rest |-> <<>>])
                            ELSE afterSave(moved, roomId)

\* A mutation of caught: the rejection leaves makeMove as a failure.
rethrown(st) == [st EXCEPT !.ret = Err("Failed to make move")]

\* catch (error) { console.error(...) }: the rejection goes no further.
caught(st) == st

\* The suspended invocation k goes on: the promise it awaits has resolved
\* (ok) or rejected. A rejected saveGame is caught and logged inside makeMove
\* and a rejected db.updatePlayerStats inside updatePlayerStats, which then
\* makes no further call; makeMove returns success either way.
settle(st, k, ok) ==
    LET s0 == [st EXCEPT !.pending = @ (-) SetToBag({k}), !.ret = Ok(k.room)]
        s1 == IF ok THEN s0 ELSE caught(s0)
    IN IF k.at = "saveGame" THEN afterSave(s1, k.room)
       ELSE IF ok /\ k.rest # <<>>
       THEN suspend(dbUpdatePlayerStats(s1, k.game, Head(k.rest)), [k EXCEPT !.rest = Tail(@)])
       ELSE s1

\* The answers of the database to the (at most 3) calls of one makeMove:
\* TRUE when the promise resolves, FALSE when it rejects.
Answers == [1 .. 3 -> BOOLEAN]

\* Every database call of the invocation resolves.
AllOk == [i \in 1 .. 3 |-> TRUE]

RECURSIVE complete(_, _, _)
\* makeMove run to its return, the database answering its i-th call with
\* oks[i]: nothing else happens between the awaits.
complete(st, oks, i) ==
    IF st.pending = EmptyBag \/ i > 3 THEN st
    ELSE complete(settle(st, CHOOSE k \in BagToSet(st.pending) : TRUE, oks[i]), oks, i + 1)

\* A mutation of swapSymbol: the player keeps its mark.
keepSymbol(m) == m

\* player.symbol === 'X' ? 'O' : 'X'
swapSymbol(m) == IF m = "X" THEN "O" ELSE "X"

RECURSIVE flipAll(_, _)
\* players.forEach(p => p.symbol = swapSymbol(p.symbol)): one swap per list
\* entry, so an object listed twice is swapped twice.
flipAll(sym, players) ==
    IF players = <<>> THEN sym
    ELSE flipAll([sym EXCEPT ![Head(players)] = swapSymbol(@)], Tail(players))

\* A mutation of clearReady: the flags survive the reset.
keepReady(ready, players) == ready

\* players.forEach(p => p.isReady = false)
clearReady(ready, players) ==
    [x \in DOMAIN ready |-> IF x \in Range(players) THEN FALSE ELSE ready[x]]

newStartingPlayer(game) == IF game.currentPlayer = "X" THEN "O" ELSE "X"

\* GameLogic.resetGame on the state.
resetGame(st, roomId) ==
    LET game == st.rooms[roomId].game
        fresh == [game EXCEPT !.id = st.uuid + 1, !.board = createEmptyBoard,
                              !.currentPlayer = newStartingPlayer(game),
                              !.status = "playing", !.result = NULL]
    IN [st EXCEPT !.symbol = flipAll(st.symbol, game.players),
                  !.isReady = clearReady(st.isReady, game.players),
                  !.uuid = st.uuid + 1,
                  !.rooms = [st.rooms EXCEPT ![roomId].game = fresh]]

allReady(st, players) == \A i \in DOMAIN players : st.isReady[players[i]]

\* A mutation of notFinished: the caller is marked ready before the refusal.
notFinishedSetsReady(st, c) ==
    [st EXCEPT !.isReady[c] = TRUE, !.ret = Err("Game is not finished")]

\* return { success: false, error: 'Game is not finished' }
notFinished(st, c) == [st EXCEPT !.ret = Err("Game is not finished")]

handleRematch(st, c) ==
    IF c \notin DOMAIN st.playerRooms THEN [st EXCEPT !.ret = Err("Player not in any room")]
    ELSE LET roomId == st.playerRooms[c]
         IN IF roomId \notin DOMAIN st.rooms THEN [st EXCEPT !.ret = Err("Room not found")]
            ELSE IF st.rooms[roomId].game.status # "finished"
            THEN notFinished(st, c)
            ELSE LET players == st.rooms[roomId].game.players
                     s1 == IF findPlayer(players, c)
                           THEN [st EXCEPT !.isReady[c] = TRUE, !.ret = Ok(roomId)]
                           ELSE [st EXCEPT !.ret = Ok(roomId)]
                 IN IF allReady(s1, players) THEN resetGame(s1, roomId) ELSE s1

\* A mutation of roomIsEmpty: the room is deleted whoever is left in it.
roomAlwaysEmpty(players, spectators) == TRUE

\* A mutation of roomIsEmpty: the spectators are not looked at.
roomHasNoPlayers(players, spectators) == Len(players) = 0

\* room.game.players.length === 0 && room.spectators.length === 0
roomIsEmpty(players, spectators) == Len(players) = 0 /\ Len(spectators) = 0

leaveRoom(st, c) ==
    IF c \notin DOMAIN st.playerRooms THEN [st EXCEPT !.ret = Err("")]
    ELSE LET roomId == st.playerRooms[c]
         IN IF roomId \notin DOMAIN st.rooms THEN [st EXCEPT !.ret = Err("")]
            ELSE LET room == st.rooms[roomId]
                     players == filterOut(room.game.players, c)
                     spectators == filterOut(room.spectators, c)
                     queueIndex == indexOf(st.queue, c)
                     left == [room EXCEPT !.game.players = players, !.spectators = spectators]
                 IN [st EXCEPT
                       !.queue = IF queueIndex # 0 THEN spliceOne(st.queue, queueIndex) ELSE @,
                       !.playerRooms = delKey(st.playerRooms, c),
                       !.rooms = IF roomIsEmpty(players, spectators)
                                 THEN delKey(st.rooms, roomId)
                                 ELSE [st.rooms EXCEPT ![roomId] = left],
                       !.ret = Ok(roomId)]

\* retResult before GameLogic.checkGameResult has been called directly.
NotCalled == "not called"

\* getRoomByPlayer and the lookups the handlers start with.
RoomIds == DOMAIN rooms
gameOf(r) == rooms[r].game
playersOf(r) == rooms[r].game.players
roomOf(c) == playerRooms[c]
inRoom(c) == c \in DOMAIN playerRooms /\ playerRooms[c] \in DOMAIN rooms

Init ==
    /\ rooms = <<>>
    /\ playerRooms = <<>>
    /\ matchmakingQueue = <<>>
    /\ symbol = [c \in Conns |-> "X"]
    /\ isReady = [c \in Conns |-> FALSE]
    /\ uuidCount = 0
    /\ pending = EmptyBag
    /\ saveGameCalls = <<>>
    /\ statsCalls = <<>>
    /\ socketRooms = [c \in Conns |-> {}]
    /\ rematchButtons = [c \in Conns |-> FALSE]
    /\ argBoard = createEmptyBoard
    /\ retResult = NotCalled
    /\ retStats = <<>>

\* The games whose database calls are observed: those the rooms hold.
observed(st) == {st.rooms[r].game.id : r \in DOMAIN st.rooms}

restrict(f, S) == [x \in (DOMAIN f) \cap S |-> f[x]]

InstallWithin(st, maxUuid) ==
    /\ st.uuid <= maxUuid
    /\ \A r \in DOMAIN st.rooms : Len(st.rooms[r].spectators) <= MaxSpectators
    /\ BagCardinality(st.pending) <= MaxPending
    /\ rooms' = st.rooms
    /\ playerRooms' = st.playerRooms
    /\ matchmakingQueue' = st.queue
    /\ symbol' = st.symbol
    /\ isReady' = st.isReady
    /\ uuidCount' = st.uuid
    /\ pending' = st.pending
    /\ saveGameCalls' = restrict(st.saveGameCalls, observed(st))
    /\ statsCalls' = restrict(st.statsCalls, observed(st))
    /\ UNCHANGED engine

Install(st) == InstallWithin(st, MaxUuid)

CreateRoom(c) == Install(createRoom(Cur, c)) /\ UNCHANGED gateway

JoinRoom(c, roomId) ==
    \E coin \in BOOLEAN : Install(joinRoom(Cur, roomId, c, coin)) /\ UNCHANGED gateway

FindMatch(c) == \E coin \in BOOLEAN : Install(findMatch(Cur, c, coin)) /\ UNCHANGED gateway

\* The cells a client sends with make-move: the next cell of one of the
\* games of Scenarios (an X win, a draw, an O win), or a cell the server
\* must reject (the first cell of the scenarios, occupied after the first
\* move, and two cells out of range).
Scenarios ==
    << << <<0, 0>>, <<1, 0>>, <<0, 1>>, <<1, 1>>, <<0, 2>> >>,
       << <<0, 0>>, <<1, 1>>, <<0, 2>>, <<0, 1>>, <<2, 1>>, <<1, 2>>, <<1, 0>>, <<2, 0>>, <<2, 2>> >>,
       << <<0, 0>>, <<1, 1>>, <<0, 2>>, <<0, 1>>, <<1, 0>>, <<2, 1>> >> >>

totalMoves(board) == Cardinality({p \in Idx \X Idx : board[p[1]][p[2]] # NULL})

MoveInputs(c) ==
    LET board == IF c \in DOMAIN playerRooms /\ playerRooms[c] \in DOMAIN rooms
                 THEN rooms[playerRooms[c]].game.board ELSE createEmptyBoard
        n == totalMoves(board) + 1
    IN {Scenarios[g][n] : g \in {h \in DOMAIN Scenarios : n <= Len(Scenarios[h])}}
          \cup {<<0, 0>>, <<-1, 0>>, <<0, 3>>}

\* makeMove when the database answers before the next event arrives.
MakeMoveWith(c, row, col, oks) ==
    /\ pending = EmptyBag
    /\ Install(complete(makeMove(Cur, c, row, col), oks, 1))
    /\ UNCHANGED gateway

\* The answers matter only when makeMove reaches a database call.
AnswersTo(st) == IF st.pending = EmptyBag THEN {AllOk} ELSE Answers

MakeMove(c, row, col) ==
    \E oks \in AnswersTo(makeMove(Cur, c, row, col)) : MakeMoveWith(c, row, col, oks)

HandleRematch(c) == Install(handleRematch(Cur, c)) /\ UNCHANGED gateway

LeaveRoom(c) == Install(leaveRoom(Cur, c)) /\ UNCHANGED gateway

Next ==
    \/ \E c \in Conns : CreateRoom(c)
    \/ \E c \in Conns, roomId \in Uuids : JoinRoom(c, roomId)
    \/ \E c \in Conns : FindMatch(c)
    \/ \E c \in Conns : \E p \in MoveInputs(c) : MakeMove(c, p[1], p[2])
    \/ \E c \in Conns : HandleRematch(c)
    \/ \E c \in Conns : LeaveRoom(c)

Spec == Init /\ [][Next]_vars

\* ---------------------------------------------- makeMove across its awaits
\* Socket events of the connections in Peers are handled while earlier
\* makeMove invocations are still suspended at an await; the database answers
\* every call (resolves).
MakeMoveAsync(c, row, col) == Install(makeMove(Cur, c, row, col)) /\ UNCHANGED gateway

\* The database answers the call the suspended invocation k awaits.
Settle(k) == BagIn(k, pending) /\ Install(settle(Cur, k, TRUE)) /\ UNCHANGED gateway

AsyncNext ==
    \/ \E c \in Peers : CreateRoom(c)
    \/ \E c \in Peers, roomId \in Uuids : JoinRoom(c, roomId)
    \/ \E c \in Peers : FindMatch(c)
    \/ \E c \in Peers : \E p \in MoveInputs(c) : MakeMoveAsync(c, p[1], p[2])
    \/ \E c \in Peers : HandleRematch(c)
    \/ \E c \in Peers : LeaveRoom(c)
    \/ \E k \in BagToSet(pending) : Settle(k)

AsyncSpec == Init /\ [][AsyncNext]_vars

\* ---------------------------------------------------------- longer runs
\* The connections in Peers create rooms, join rooms and play while up to
\* MaxUuidLong ids are drawn; the database answers every call at once.
CreateRoomLong(c) == InstallWithin(createRoom(Cur, c), MaxUuidLong) /\ UNCHANGED gateway

JoinRoomLong(c, roomId) ==
    \E coin \in BOOLEAN :
        InstallWithin(joinRoom(Cur, roomId, c, coin), MaxUuidLong) /\ UNCHANGED gateway

MakeMoveLong(c, row, col) ==
    /\ InstallWithin(complete(makeMove(Cur, c, row, col), AllOk, 1), MaxUuidLong)
    /\ UNCHANGED gateway

LongNext ==
    \/ \E c \in Peers : CreateRoomLong(c)
    \/ \E c \in Peers, roomId \in 1 .. MaxUuidLong : JoinRoomLong(c, roomId)
    \/ \E c \in Peers : \E p \in MoveInputs(c) : MakeMoveLong(c, p[1], p[2])

LongSpec == Init /\ [][LongNext]_vars

\* ------------------------------------------- suspended moves and two rooms
\* The events of AsyncSpec while up to MaxUuidWide ids are drawn, so that a
\* second room exists while a move of the first awaits the database.
CreateRoomWide(c) == InstallWithin(createRoom(Cur, c), MaxUuidWide) /\ UNCHANGED gateway

JoinRoomWide(c, roomId) ==
    \E coin \in BOOLEAN :
        InstallWithin(joinRoom(Cur, roomId, c, coin), MaxUuidWide) /\ UNCHANGED gateway

MakeMoveWide(c, row, col) ==
    InstallWithin(makeMove(Cur, c, row, col), MaxUuidWide) /\ UNCHANGED gateway

HandleRematchWide(c) == InstallWithin(handleRematch(Cur, c), MaxUuidWide) /\ UNCHANGED gateway

LeaveRoomWide(c) == InstallWithin(leaveRoom(Cur, c), MaxUuidWide) /\ UNCHANGED gateway

SettleWide(k) ==
    BagIn(k, pending) /\ InstallWithin(settle(Cur, k, TRUE), MaxUuidWide) /\ UNCHANGED gateway

\* The cells sent here: the next cell of the first game of Scenarios, and a
\* cell that is taken once that game has begun.
WideInputs(c) ==
    LET played == IF inRoom(c) THEN totalMoves(gameOf(roomOf(c)).board) ELSE 0
    IN {Scenarios[1][n] : n \in {played + 1} \cap DOMAIN Scenarios[1]} \cup {<<0, 0>>}

WideNext ==
    \/ \E c \in Peers : CreateRoomWide(c)
    \/ \E c \in Peers, roomId \in 1 .. MaxUuidWide : JoinRoomWide(c, roomId)
    \/ \E c \in Peers : \E p \in WideInputs(c) : MakeMoveWide(c, p[1], p[2])
    \/ \E c \in Peers : HandleRematchWide(c)
    \/ \E c \in Peers : LeaveRoomWide(c)
    \/ \E k \in BagToSet(pending) : SettleWide(k)

WideSpec == Init /\ [][WideNext]_vars

\* ------------------------------------------------------------- the lobby
\* Rooms are created, joined, left and matched while up to MaxUuidLobby ids
\* are drawn; no move is made.
CreateRoomLobby(c) == InstallWithin(createRoom(Cur, c), MaxUuidLobby) /\ UNCHANGED gateway

JoinRoomLobby(c, roomId) ==
    \E coin \in BOOLEAN :
        InstallWithin(joinRoom(Cur, roomId, c, coin), MaxUuidLobby) /\ UNCHANGED gateway

FindMatchLobby(c) ==
    \E coin \in BOOLEAN :
        InstallWithin(findMatch(Cur, c, coin), MaxUuidLobby) /\ UNCHANGED gateway

LeaveRoomLobby(c) == InstallWithin(leaveRoom(Cur, c), MaxUuidLobby) /\ UNCHANGED gateway

LobbyNext ==
    \/ \E c \in Conns : CreateRoomLobby(c)
    \/ \E c \in Conns, roomId \in 1 .. MaxUuidLobby : JoinRoomLobby(c, roomId)
    \/ \E c \in Conns : FindMatchLobby(c)
    \/ \E c \in Conns : LeaveRoomLobby(c)

LobbySpec == Init /\ [][LobbyNext]_vars

\* ------------------------------------------------- the board engine alone
\* A mutation of isGameActive: the comparison is inverted.
isGameDecided(result) == result # NULL

\* const isGameActive = result === null
isGameActive(result) == result = NULL

getGameStats(board) ==
    [totalMoves |-> totalMoves(board),
     movesLeft |-> 9 - totalMoves(board),
     isGameActive |-> isGameActive(checkGameResult(board))]

\* GameLogic.checkGameResult and GameLogic.getGameStats are static and take
\* any GameBoard: each is called once on a board drawn from all 3x3 boards
\* over null, X and O, with no room in the registry.
Boards == [Idx -> [Idx -> {NULL} \cup Marks]]

BoardInit ==
    /\ rooms = <<>>
    /\ playerRooms = <<>>
    /\ matchmakingQueue = <<>>
    /\ symbol = [c \in Conns |-> "X"]
    /\ isReady = [c \in Conns |-> FALSE]
    /\ uuidCount = 0
    /\ pending = EmptyBag
    /\ saveGameCalls = <<>>
    /\ statsCalls = <<>>
    /\ socketRooms = [c \in Conns |-> {}]
    /\ rematchButtons = [c \in Conns |-> FALSE]
    /\ argBoard \in Boards
    /\ retResult = NotCalled
    /\ retStats = <<>>

CheckGameResult ==
    /\ retResult = NotCalled
    /\ retResult' = checkGameResult(argBoard)
    /\ UNCHANGED <<registry, persistence, gateway, argBoard, retStats>>

GetGameStats ==
    /\ retStats = <<>>
    /\ retStats' = <<getGameStats(argBoard)>>
    /\ UNCHANGED <<registry, persistence, gateway, argBoard, retResult>>

BoardNext == CheckGameResult \/ GetGameStats

BoardSpec == BoardInit /\ [][BoardNext]_vars

\* ------------------------------------------------------ Socket.IO handlers
\* socket.join(roomId) / socket.leave(roomId)
socketJoin(c, roomId) == [socketRooms EXCEPT ![c] = @ \cup {roomId}]
socketLeave(c, roomId) == [socketRooms EXCEPT ![c] = @ \ {roomId}]

\* The sockets socket.to(roomId) reaches: those in the Socket.IO room, the
\* sender excepted; io.to(roomId) reaches the sender too.
socketTo(c, roomId) == {s \in Conns : s # c /\ roomId \in socketRooms[s]}
ioTo(roomId) == {s \in Conns : roomId \in socketRooms[s]}

OnCreateRoom(c) ==
    LET st == createRoom(Cur, c)
    IN /\ Install(st)
       /\ socketRooms' = socketJoin(c, st.ret.roomId)
       /\ UNCHANGED rematchButtons

OnJoinRoom(c, roomId) ==
    \E coin \in BOOLEAN :
        LET st == joinRoom(Cur, roomId, c, coin)
        IN /\ Install(st)
           /\ socketRooms' = IF st.ret.success THEN socketJoin(c, roomId) ELSE socketRooms
           /\ UNCHANGED rematchButtons

\* findMatch reports matched exactly when it returns joinRoom's room.
OnFindMatch(c) ==
    \E coin \in BOOLEAN :
        LET st == findMatch(Cur, c, coin)
        IN /\ Install(st)
           /\ socketRooms' = IF st.ret.success THEN socketJoin(c, st.ret.roomId)
                             ELSE socketRooms
           /\ UNCHANGED rematchButtons

OnMakeMove(c, row, col) == MakeMove(c, row, col)

\* 'request-rematch' only relays 'rematch-requested' to the other sockets of
\* the Socket.IO room, whose clients then show the accept / decline buttons.
OnRequestRematch(c) ==
    /\ rematchButtons' = IF inRoom(c)
                         THEN [s \in Conns |-> rematchButtons[s] \/ s \in socketTo(c, roomOf(c))]
                         ELSE rematchButtons
    /\ UNCHANGED <<registry, persistence, socketRooms, engine>>

\* The events the 'accept-rematch' handler emits.
acceptRematchEmits(st, c) ==
    LET res == handleRematch(st, c)
    IN IF res.ret.success
       THEN IF res.rooms[res.ret.roomId].game.status = "playing"
            THEN {"rematch-accepted", "game-updated"} ELSE {}
       ELSE {"error"}

\* The accept button hides the sender's buttons; 'rematch-accepted' hides
\* those of every client it reaches.
OnAcceptRematch(c) ==
    LET st == handleRematch(Cur, c)
    IN /\ Install(st)
       /\ rematchButtons' =
             [s \in Conns |->
                IF s = c THEN FALSE
                ELSE IF "rematch-accepted" \in acceptRematchEmits(Cur, c)
                        /\ s \in ioTo(st.ret.roomId) THEN FALSE
                ELSE rematchButtons[s]]
       /\ UNCHANGED socketRooms

\* 'decline-rematch' relays 'rematch-declined'; the decline button hides the
\* sender's buttons. No registry state changes.
OnDeclineRematch(c) ==
    /\ rematchButtons' = [rematchButtons EXCEPT ![c] = FALSE]
    /\ UNCHANGED <<registry, persistence, socketRooms, engine>>

\* handlePlayerDisconnect, the body of 'leave-room' and 'disconnect'.
OnLeaveRoom(c) ==
    LET st == leaveRoom(Cur, c)
    IN /\ Install(st)
       /\ socketRooms' = IF st.ret.success THEN socketLeave(c, st.ret.roomId)
                         ELSE socketRooms
       /\ UNCHANGED rematchButtons

GatewayNext ==
    \/ \E c \in Peers : OnCreateRoom(c)
    \/ \E c \in Peers, roomId \in Uuids : OnJoinRoom(c, roomId)
    \/ \E c \in Peers : OnFindMatch(c)
    \/ \E c \in Peers : \E p \in MoveInputs(c) : OnMakeMove(c, p[1], p[2])
    \/ \E c \in Peers : OnRequestRematch(c)
    \/ \E c \in Peers : OnAcceptRematch(c)
    \/ \E c \in Peers : OnDeclineRematch(c)
    \/ \E c \in Peers : OnLeaveRoom(c)

GatewaySpec == Init /\ [][GatewayNext]_vars

\* ------------------------------------------------------------ properties
AnyCoord == -1 .. 3
\* The other mark.
Opp(m) == IF m = "X" THEN "O" ELSE "X"

\* C1: no room ever lists more than 2 players, and every joinRoom on a room
\* that already has 2 players succeeds, appends the joiner to that room's
\* spectators and leaves its player list unchanged.
C1_AtMostTwoPlayers ==
    /\ [](\A r \in RoomIds : Len(playersOf(r)) <= 2)
    /\ [][\A c \in Conns, r \in Uuids :
            (r \in RoomIds /\ Len(playersOf(r)) = 2 /\ JoinRoom(c, r)) =>
               /\ \A coin \in BOOLEAN : joinRoom(Cur, r, c, coin).ret.success
               /\ r \in DOMAIN rooms'
               /\ rooms'[r].spectators = Append(rooms[r].spectators, c)
               /\ rooms'[r].game.players = playersOf(r)]_vars

\* A third connection has joined a full room and sits in its spectators.
C1_Witness ==
    \E r \in RoomIds : /\ Len(playersOf(r)) = 2
                       /\ \E i \in DOMAIN rooms[r].spectators :
                             rooms[r].spectators[i] \notin Range(playersOf(r))

\* C2: a game whose status is 'playing' has exactly 2 players and no result.
C2_ActiveHasTwoPlayers ==
    \A r \in RoomIds : gameOf(r).status = "playing" =>
                          Len(playersOf(r)) = 2 /\ gameOf(r).result = NULL

\* C3: a game whose status is 'waiting' has exactly 1 player, and a game
\* whose status is 'finished' has a result (X, O or draw).
C3_WaitingOneFinishedOutcome ==
    \A r \in RoomIds :
        /\ gameOf(r).status = "waiting" => Len(playersOf(r)) = 1
        /\ gameOf(r).status = "finished" => gameOf(r).result \in {"X", "O", "draw"}

\* A game has been played to its end.
C3_Witness == \E r \in RoomIds : gameOf(r).status = "finished" /\ gameOf(r).result = "draw"

\* C4: a connection is listed as a player by at most one room, the room the
\* connection-to-room map points to.
C4_OneRoomPerConnection ==
    \A c \in Conns : \A r \in RoomIds :
        c \in Range(playersOf(r)) => c \in DOMAIN playerRooms /\ playerRooms[c] = r

\* The cells of room r's board that the step writes: a step that writes a
\* cell and keeps the game id is a successful makeMove on r.
written(r) ==
    {p \in Idx \X Idx : rooms'[r].game.board[p[1]][p[2]] # gameOf(r).board[p[1]][p[2]]}

moveStep(r) ==
    /\ r \in DOMAIN rooms'
    /\ rooms'[r].game.id = gameOf(r).id
    /\ rooms'[r].game.board # gameOf(r).board

\* C5: a successful makeMove that does not end the game hands the turn to the
\* mark opposite to the one that moved; one that ends the game leaves the turn
\* where it was; the turn of a game that has a result never changes, and no
\* makeMove on such a game succeeds.
C5_TurnAlternation ==
    /\ [][\A r \in RoomIds : moveStep(r) =>
            \E p \in written(r) :
               LET m == rooms'[r].game.board[p[1]][p[2]]
               IN /\ written(r) = {p}
                  /\ m \in Marks
                  /\ IF rooms'[r].game.result = NULL
                     THEN rooms'[r].game.currentPlayer = Opp(m)
                     ELSE rooms'[r].game.currentPlayer = gameOf(r).currentPlayer]_vars
    /\ [][\A r \in RoomIds :
            (gameOf(r).result # NULL /\ r \in DOMAIN rooms' /\ rooms'[r].game.id = gameOf(r).id)
               => rooms'[r].game.currentPlayer = gameOf(r).currentPlayer]_vars
    /\ [](\A c \in Conns : (inRoom(c) /\ gameOf(roomOf(c)).result # NULL) =>
             \A row \in AnyCoord, col \in AnyCoord : ~makeMove(Cur, c, row, col).ret.success)

\* O has just won: the turn still names O, the mark that made the last move.
C5_Witness ==
    \E r \in RoomIds : /\ gameOf(r).status = "finished"
                       /\ gameOf(r).result = "O"
                       /\ gameOf(r).currentPlayer = "O"
\* A step in which handleRematch(c) replaces the finished game of c's room by
\* a new one (GameLogic.resetGame has run).
resetStep(c) ==
    /\ inRoom(c)
    /\ gameOf(roomOf(c)).status = "finished"
    /\ HandleRematch(c)
    /\ roomOf(c) \in DOMAIN rooms'
    /\ rooms'[roomOf(c)].game.id # gameOf(roomOf(c)).id

\* C6: every game that is 'playing' with an empty board, started by a join or
\* by a rematch reset, has X as the mark to move.
C6_ActiveStartsWithX ==
    \A r \in RoomIds :
        (gameOf(r).status = "playing" /\ gameOf(r).board = createEmptyBoard)
           => gameOf(r).currentPlayer = "X"

\* C7: a rematch reset gives every listed player the mark opposite to the one
\* it held in the finished game.
C7_ResetSwapsMarks ==
    [][\A c \in Conns : resetStep(c) =>
          \A i \in DOMAIN playersOf(roomOf(c)) :
             symbol'[playersOf(roomOf(c))[i]] = Opp(symbol[playersOf(roomOf(c))[i]])]_vars

\* A rematch of two different players has just started: only resetGame
\* leaves an empty board with O to move.
C7_Witness ==
    \E r \in RoomIds : /\ gameOf(r).status = "playing"
                       /\ gameOf(r).board = createEmptyBoard
                       /\ gameOf(r).currentPlayer = "O"
                       /\ Len(playersOf(r)) = 2
                       /\ playersOf(r)[1] # playersOf(r)[2]
                       /\ symbol[playersOf(r)[1]] # symbol[playersOf(r)[2]]

\* The mark that made the first move of a finished game: marks alternate and
\* the move that ends a game leaves currentPlayer at the mark that made it.
firstMark(game) ==
    IF totalMoves(game.board) % 2 = 1 THEN game.currentPlayer ELSE Opp(game.currentPlayer)

\* C8: after a rematch reset the player who is to move first is not the player
\* who moved first in the game just finished.
C8_FirstMoverAlternates ==
    [][\A c \in Conns : resetStep(c) =>
          \A i \in DOMAIN playersOf(roomOf(c)) :
             LET p == playersOf(roomOf(c))[i]
             IN ~(/\ symbol[p] = firstMark(gameOf(roomOf(c)))
                  /\ symbol'[p] = rooms'[roomOf(c)].game.currentPlayer)]_vars

\* C9: a successful handleRematch(c) on a finished game resets it only if
\* another listed player was already ready; otherwise the game stays finished
\* and c's flag is the only one the call sets.
opponentReady(c) ==
    \E i \in DOMAIN playersOf(roomOf(c)) :
        playersOf(roomOf(c))[i] # c /\ isReady[playersOf(roomOf(c))[i]]

C9_RematchHandshake ==
    [][\A c \in Conns :
          (inRoom(c) /\ gameOf(roomOf(c)).status = "finished" /\ HandleRematch(c)) =>
             IF opponentReady(c)
             THEN resetStep(c)
             ELSE /\ roomOf(c) \in DOMAIN rooms'
                  /\ rooms'[roomOf(c)].game = gameOf(roomOf(c))
                  /\ isReady' = [isReady EXCEPT ![c] = TRUE]]_vars
\* C10: when the two players a and b of a finished game have no ready flag
\* set, a's request-rematch has reached b (b's client shows the buttons) and
\* b sends accept-rematch, the game is reset to a new 'playing' game and
\* rematch-accepted is broadcast to the room.
C10_RequestThenAccept ==
    [][\A a \in Conns, b \in Conns :
          (/\ a # b
           /\ inRoom(a) /\ inRoom(b) /\ roomOf(a) = roomOf(b)
           /\ Range(playersOf(roomOf(b))) = {a, b}
           /\ Len(playersOf(roomOf(b))) = 2
           /\ gameOf(roomOf(b)).status = "finished"
           /\ ~isReady[a] /\ ~isReady[b]
           /\ rematchButtons[b] /\ ~rematchButtons[a]
           /\ OnAcceptRematch(b))
          => /\ roomOf(b) \in DOMAIN rooms'
             /\ rooms'[roomOf(b)].game.status = "playing"
             /\ rooms'[roomOf(b)].game.id # gameOf(roomOf(b)).id
             /\ "rematch-accepted" \in acceptRematchEmits(Cur, b)]_vars

\* C11: a rematch reset leaves a game with an empty board, status 'playing',
\* no result, a game id no room or game had before and the ready flag of every
\* listed player false, and it keeps the room ids, the room's spectators, its
\* player list, the connection-to-room map and the matchmaking queue.
C11_ResetFrame ==
    [][\A c \in Conns : resetStep(c) =>
          LET r == roomOf(c)
              g == rooms'[r].game
          IN /\ g.board = createEmptyBoard
             /\ g.status = "playing"
             /\ g.result = NULL
             /\ g.id \notin RoomIds \cup {gameOf(q).id : q \in RoomIds}
             /\ \A i \in DOMAIN g.players : ~isReady'[g.players[i]]
             /\ DOMAIN rooms' = RoomIds
             /\ rooms'[r].spectators = rooms[r].spectators
             /\ g.players = playersOf(r)
             /\ playerRooms' = playerRooms
             /\ matchmakingQueue' = matchmakingQueue]_vars

\* A rematch has started in a room that has a spectator.
C11_Witness ==
    \E r \in RoomIds : /\ gameOf(r).status = "playing"
                       /\ gameOf(r).board = createEmptyBoard
                       /\ gameOf(r).currentPlayer = "O"
                       /\ Len(rooms[r].spectators) = 1
                       /\ Len(playersOf(r)) = 2
                       /\ \A i \in DOMAIN playersOf(r) : ~isReady[playersOf(r)[i]]

\* The database calls recorded for the game room r holds.
statsOf(r) == IF gameOf(r).id \in DOMAIN statsCalls THEN statsCalls[gameOf(r).id] ELSE <<>>
savesOf(r) == IF gameOf(r).id \in DOMAIN saveGameCalls THEN saveGameCalls[gameOf(r).id].count ELSE 0

\* No makeMove invocation on room r is suspended.
quiet(r) == \A k \in BagToSet(pending) : k.room # r

\* C12: once every makeMove on its room has returned, a finished game whose 2
\* players are still listed has had exactly 2 db.updatePlayerStats calls, one
\* for each player, whatever events were handled while the invocations were
\* suspended.
C12_StatsOncePerPlayer ==
    \A r \in RoomIds :
        (/\ gameOf(r).status = "finished"
         /\ Len(playersOf(r)) = 2
         /\ playersOf(r)[1] # playersOf(r)[2]
         /\ quiet(r)) =>
           /\ Len(statsOf(r)) = 2
           /\ statsOf(r)[1][1] # statsOf(r)[2][1]

\* What the statistics of player q should record for the finished game.
outcomeOf(st, game, q) ==
    IF game.result = "draw" THEN "draw"
    ELSE IF st.symbol[q] = game.result THEN "win" ELSE "loss"

\* C13: when a move finishes a game of 2 players and the database answers its
\* calls before anything else happens, db.updatePlayerStats has been called
\* twice: with 'win' for the player holding the winning mark and 'loss' for
\* the other one, or with 'draw' for both.
C13_RecordedOutcomes ==
    \A c \in Conns : \A p \in MoveInputs(c) :
        LET st == complete(makeMove(Cur, c, p[1], p[2]), AllOk, 1)
        IN (/\ pending = EmptyBag
            /\ inRoom(c)
            /\ Len(playersOf(roomOf(c))) = 2
            /\ playersOf(roomOf(c))[1] # playersOf(roomOf(c))[2]
            /\ st.ret.success
            /\ st.rooms[roomOf(c)].game.status = "finished") =>
              LET g == st.rooms[roomOf(c)].game
                  calls == IF g.id \in DOMAIN st.statsCalls THEN st.statsCalls[g.id] ELSE <<>>
              IN /\ Len(calls) = 2
                 /\ {calls[1], calls[2]} = {<<q, outcomeOf(st, g, q)>> : q \in Range(g.players)}

\* C14: every makeMove that succeeds has invoked db.saveGame exactly once, with
\* the game as the move left it, and none of the steps that follow its await
\* invokes it again.
C14_SaveOncePerMove ==
    \A c \in Conns : \A p \in MoveInputs(c) :
        LET s1 == makeMove(Cur, c, p[1], p[2])
        IN (pending = EmptyBag /\ s1.ret.success) =>
              LET g == s1.rooms[roomOf(c)].game
              IN /\ g.id \in DOMAIN s1.saveGameCalls
                 /\ s1.saveGameCalls[g.id].count = savesOf(roomOf(c)) + 1
                 /\ s1.saveGameCalls[g.id].game = snapshot(g)
                 /\ \A oks \in Answers : complete(s1, oks, 1).saveGameCalls = s1.saveGameCalls

\* C15: whatever calls of db.saveGame and db.updatePlayerStats reject, a
\* makeMove whose move was accepted returns success, and the rooms (cell,
\* turn, status, result), the marks, the ready flags, the connection-to-room
\* map and the queue are those the move committed before the first await.
C15_FailureKeepsMove ==
    \A c \in Conns : \A p \in MoveInputs(c) : \A oks \in Answers :
        LET s1 == makeMove(Cur, c, p[1], p[2])
            s2 == complete(s1, oks, 1)
        IN (pending = EmptyBag /\ s1.ret.success) =>
              /\ s2.ret = Ok(roomOf(c))
              /\ s1.rooms[roomOf(c)].game.board[p[1]][p[2]] = symbol[c]
              /\ s2.rooms = s1.rooms
              /\ s2.symbol = s1.symbol
              /\ s2.isReady = s1.isReady
              /\ s2.playerRooms = s1.playerRooms
              /\ s2.queue = s1.queue

\* The first db.updatePlayerStats call of a finished game was rejected: the
\* second was never made, and the game stands as the move left it.
C15_Witness ==
    \E r \in RoomIds : /\ gameOf(r).status = "finished"
                       /\ gameOf(r).result \in {"X", "O", "draw"}
                       /\ Len(playersOf(r)) = 2
                       /\ Len(statsOf(r)) = 1

\* The error the five checks of makeMove should report for connection c and
\* cell (row, col), in the order no room, status, listed, turn, cell; "" when
\* all pass.
firstFailure(c, row, col) ==
    IF ~inRoom(c) THEN "Player not in any room"
    ELSE LET game == gameOf(roomOf(c))
         IN IF game.status # "playing" THEN "Game is not active"
            ELSE IF c \notin Range(game.players) THEN "Player not found"
            ELSE IF symbol[c] # game.currentPlayer THEN "Not your turn"
            ELSE IF row \notin Idx \/ col \notin Idx THEN "Invalid move"
            ELSE IF game.board[row][col] # NULL THEN "Invalid move"
            ELSE ""

\* C16: makeMove reports the first check that fails, in the order no room,
\* game not active, player not found, not your turn, invalid move, and it
\* succeeds exactly when no check fails.
C16_CheckOrder ==
    \A c \in Conns : \A row \in AnyCoord, col \in AnyCoord :
        LET st == makeMove(Cur, c, row, col)
        IN IF firstFailure(c, row, col) = "" THEN st.ret.success
           ELSE ~st.ret.success /\ st.ret.error = firstFailure(c, row, col)

\* A player whose turn it is not sends a cell out of range: the turn is
\* reported, not the cell.
C16_Witness ==
    \E c \in Conns : /\ inRoom(c)
                      /\ gameOf(roomOf(c)).status = "playing"
                      /\ totalMoves(gameOf(roomOf(c)).board) > 0
                      /\ c \in Range(playersOf(roomOf(c)))
                      /\ symbol[c] # gameOf(roomOf(c)).currentPlayer
                      /\ makeMove(Cur, c, -1, 0).ret.error = "Not your turn"

\* C17: a makeMove that fails changes no room (board, turn, status, result,
\* players, spectators), no mark or flag, neither the connection-to-room map
\* nor the queue, and invokes neither db.saveGame nor db.updatePlayerStats.
C17_FailedMoveFrame ==
    \A c \in Conns : \A row \in AnyCoord, col \in AnyCoord :
        LET st == makeMove(Cur, c, row, col)
        IN ~st.ret.success =>
              /\ st.rooms = rooms
              /\ st.playerRooms = playerRooms
              /\ st.queue = matchmakingQueue
              /\ st.symbol = symbol
              /\ st.isReady = isReady
              /\ st.uuid = uuidCount
              /\ st.saveGameCalls = saveGameCalls
              /\ st.statsCalls = statsCalls
              /\ st.pending = pending

\* The player to move sends a cell that is already taken.
C17_Witness ==
    \E c \in Conns : /\ inRoom(c)
                      /\ gameOf(roomOf(c)).status = "playing"
                      /\ symbol[c] = gameOf(roomOf(c)).currentPlayer
                      /\ gameOf(roomOf(c)).board[0][0] # NULL
                      /\ makeMove(Cur, c, 0, 0).ret.error = "Invalid move"

\* The registry part of a state.
registryOf(st) ==
    <<st.rooms, st.playerRooms, st.queue, st.symbol, st.isReady, st.uuid,
      st.pending, st.saveGameCalls, st.statsCalls>>

\* C18: for a connection that is a player of the room it is mapped to,
\* leaveRoom returns success with that room's id, and a second leaveRoom
\* right after it returns success = false and changes nothing.
C18_IdempotentLeave ==
    \A c \in Conns :
        (inRoom(c) /\ c \in Range(playersOf(roomOf(c)))) =>
           LET s1 == leaveRoom(Cur, c)
               s2 == leaveRoom(s1, c)
           IN /\ s1.ret = Ok(roomOf(c))
              /\ c \notin DOMAIN s1.playerRooms
              /\ ~s2.ret.success
              /\ registryOf(s2) = registryOf(s1)

\* A player of a game that was played to its end has left: the database row
\* names it, the room no longer lists it, and one more leaveRoom is refused.
C18_Witness ==
    \E r \in RoomIds : \E c \in Conns :
        /\ gameOf(r).status = "finished"
        /\ Len(playersOf(r)) = 1
        /\ gameOf(r).id \in DOMAIN saveGameCalls
        /\ c \in {saveGameCalls[gameOf(r).id].game.player1,
                  saveGameCalls[gameOf(r).id].game.player2}
        /\ c \notin Range(playersOf(r))
        /\ c \notin DOMAIN playerRooms
        /\ ~leaveRoom(Cur, c).ret.success

\* C19: every room in the registry has a player or a spectator, and
\* leaveRoom(c) deletes c's room exactly when, c removed, the room has neither
\* a player nor a spectator; it deletes no other room.
C19_DeletedIffEmpty ==
    /\ [](\A r \in RoomIds : Len(playersOf(r)) + Len(rooms[r].spectators) >= 1)
    /\ [][\A c \in Conns : (inRoom(c) /\ LeaveRoom(c)) =>
             /\ (roomOf(c) \notin DOMAIN rooms') <=>
                   (/\ filterOut(playersOf(roomOf(c)), c) = <<>>
                    /\ filterOut(rooms[roomOf(c)].spectators, c) = <<>>)
             /\ RoomIds \ {roomOf(c)} \subseteq DOMAIN rooms']_vars

\* Both players have left a room that has a spectator: the room is kept.
C19_Witness ==
    \E r \in RoomIds : Len(playersOf(r)) = 0 /\ Len(rooms[r].spectators) = 1

\* C20: after leaveRoom(c), c is in no room's spectators, not in the player
\* list of the room it was mapped to and not in the queue.
C20_LeaveRemovesSpectator ==
    \A c \in Conns :
        LET st == leaveRoom(Cur, c)
        IN /\ \A r \in DOMAIN st.rooms : c \notin Range(st.rooms[r].spectators)
           /\ inRoom(c) /\ roomOf(c) \in DOMAIN st.rooms
                 => c \notin Range(st.rooms[roomOf(c)].game.players)
           /\ c \notin Range(st.queue)

\* The connection findMatch(p) would pop: the head of the queue once p's own
\* entry is taken out; 0 when no other connection is queued.
waiterFor(p) ==
    LET others == filterOut(matchmakingQueue, p)
    IN IF others = <<>> THEN 0 ELSE Head(others)

\* C21: when the head of the queue is a connection w other than p whose room
\* has one player and is 'waiting', findMatch(p) returns matched with w's room,
\* which then lists exactly w and p and is 'playing', and neither w nor p is
\* in the queue afterwards.
C21_MatchWithWaiter ==
    \A p \in Conns : \A coin \in BOOLEAN :
        (/\ matchmakingQueue # <<>>
         /\ Head(matchmakingQueue) # p
         /\ inRoom(Head(matchmakingQueue))
         /\ Len(playersOf(roomOf(Head(matchmakingQueue)))) = 1
         /\ gameOf(roomOf(Head(matchmakingQueue))).status = "waiting") =>
           LET w == Head(matchmakingQueue)
               st == findMatch(Cur, p, coin)
           IN /\ st.ret = Ok(roomOf(w))
              /\ roomOf(w) \in DOMAIN st.rooms
              /\ Len(st.rooms[roomOf(w)].game.players) = 2
              /\ Range(st.rooms[roomOf(w)].game.players) = {w, p}
              /\ st.rooms[roomOf(w)].game.status = "playing"
              /\ w \notin Range(st.queue)
              /\ p \notin Range(st.queue)

\* A connection waits in the queue with its 'waiting' room while another one,
\* mapped to a room of its own, is about to be matched with it.
C21_Witness ==
    \E p \in Conns :
        /\ matchmakingQueue # <<>>
        /\ Head(matchmakingQueue) # p
        /\ inRoom(Head(matchmakingQueue))
        /\ gameOf(roomOf(Head(matchmakingQueue))).status = "waiting"
        /\ inRoom(p)
        /\ findMatch(Cur, p, TRUE).ret = Ok(roomOf(Head(matchmakingQueue)))

\* The ids in use: room ids and game ids.
idsInUse == RoomIds \cup {gameOf(r).id : r \in RoomIds}

\* C22: whenever findMatch(p) returns matched = false, p is the last entry of
\* the queue and its only entry for p, and p is mapped to a room that did not
\* exist before the call, lists p alone and is 'waiting'.
C22_UnmatchedIsQueued ==
    \A p \in Conns : \A coin \in BOOLEAN :
        LET st == findMatch(Cur, p, coin)
        IN ~st.ret.success =>
              /\ st.queue # <<>>
              /\ st.queue[Len(st.queue)] = p
              /\ Cardinality({i \in DOMAIN st.queue : st.queue[i] = p}) = 1
              /\ p \in DOMAIN st.playerRooms
              /\ st.playerRooms[p] \notin idsInUse
              /\ st.playerRooms[p] > uuidCount
              /\ st.playerRooms[p] \in DOMAIN st.rooms
              /\ st.rooms[st.playerRooms[p]].game.players = <<p>>
              /\ st.rooms[st.playerRooms[p]].game.status = "waiting"
              /\ st.rooms[st.playerRooms[p]].spectators = <<>>

\* The head of the queue sits in a room of 2 players: findMatch(p) pops it,
\* finds no room to join and queues p with a room of its own.
C22_Witness ==
    \E p \in Conns :
        /\ waiterFor(p) # 0
        /\ inRoom(waiterFor(p))
        /\ Len(playersOf(roomOf(waiterFor(p)))) = 2
        /\ uuidCount + 2 <= MaxUuidLobby
        /\ ~findMatch(Cur, p, TRUE).ret.success
        /\ findMatch(Cur, p, TRUE).queue = <<p>>

\* C23: the matchmaking queue never holds a connection id twice, whatever
\* calls were made, findMatch by a connection that is already queued included.
C23_QueuedAtMostOnce ==
    \A i \in DOMAIN matchmakingQueue : \A j \in DOMAIN matchmakingQueue :
        matchmakingQueue[i] = matchmakingQueue[j] => i = j

\* A queued connection calls findMatch again: its entry is taken out, no one
\* else waits, and it is queued anew with a second room.
C23_Witness ==
    \E c \in Conns :
        /\ c \in Range(matchmakingQueue)
        /\ inRoom(c)
        /\ uuidCount + 2 <= MaxUuidLobby
        /\ ~findMatch(Cur, c, TRUE).ret.success
        /\ findMatch(Cur, c, TRUE).queue = <<c>>
        /\ findMatch(Cur, c, TRUE).playerRooms[c] # roomOf(c)

\* The position of c in queue q, 0 when it is not queued.
queuedAt(q, c) == indexOf(q, c)

\* C24: a match made by findMatch(p) is with the connection at the front of
\* the queue, p's own entry apart, and the entries behind it keep their
\* places; the queue is in order of arrival: a step never swaps two entries
\* and puts a new entry last, so the front is the connection queued longest.
C24_StrictFifo ==
    /\ [](\A p \in Conns : \A coin \in BOOLEAN :
             LET st == findMatch(Cur, p, coin)
             IN st.ret.success =>
                   /\ waiterFor(p) # 0
                   /\ inRoom(waiterFor(p))
                   /\ st.ret.roomId = roomOf(waiterFor(p))
                   /\ waiterFor(p) \in Range(st.rooms[st.ret.roomId].game.players)
                   /\ st.queue = Tail(filterOut(matchmakingQueue, p)))
    /\ [][\A a \in Conns, b \in Conns :
            /\ (/\ queuedAt(matchmakingQueue, a) # 0
                /\ queuedAt(matchmakingQueue, b) # 0
                /\ queuedAt(matchmakingQueue', a) # 0
                /\ queuedAt(matchmakingQueue', b) # 0
                /\ queuedAt(matchmakingQueue, a) < queuedAt(matchmakingQueue, b))
                  => queuedAt(matchmakingQueue', a) < queuedAt(matchmakingQueue', b)
            /\ (queuedAt(matchmakingQueue, a) = 0 /\ queuedAt(matchmakingQueue', a) # 0)
                  => queuedAt(matchmakingQueue', a) = Len(matchmakingQueue')]_vars

\* The queued connection is the one matched although another connection has
\* been alone in a 'waiting' room of its own for longer.
C24_Witness ==
    \E p \in Conns : \E z \in Conns :
        /\ waiterFor(p) # 0
        /\ z \notin {p, waiterFor(p)}
        /\ inRoom(z) /\ inRoom(waiterFor(p))
        /\ roomOf(z) < roomOf(waiterFor(p))
        /\ gameOf(roomOf(z)).status = "waiting"
        /\ z \notin Range(matchmakingQueue)
        /\ findMatch(Cur, p, TRUE).ret = Ok(roomOf(waiterFor(p)))

\* C25: findMatch(p) returns matched only if the connection it pops is mapped
\* to a room that, at the time of the call, has exactly one player and is
\* 'waiting'; with the popped connection's room 'playing' or 'finished' the
\* call falls back to queueing p.
C25_MatchOnlyWaiting ==
    \A p \in Conns : \A coin \in BOOLEAN :
        findMatch(Cur, p, coin).ret.success =>
           /\ waiterFor(p) # 0
           /\ inRoom(waiterFor(p))
           /\ Len(playersOf(roomOf(waiterFor(p)))) = 1
           /\ gameOf(roomOf(waiterFor(p))).status = "waiting"

\* The 8 lines of the board in the order rows 0-2, columns 0-2, main
\* diagonal, anti-diagonal.
Lines ==
    << << <<0, 0>>, <<0, 1>>, <<0, 2>> >>,
       << <<1, 0>>, <<1, 1>>, <<1, 2>> >>,
       << <<2, 0>>, <<2, 1>>, <<2, 2>> >>,
       << <<0, 0>>, <<1, 0>>, <<2, 0>> >>,
       << <<0, 1>>, <<1, 1>>, <<2, 1>> >>,
       << <<0, 2>>, <<1, 2>>, <<2, 2>> >>,
       << <<0, 0>>, <<1, 1>>, <<2, 2>> >>,
       << <<0, 2>>, <<1, 1>>, <<2, 0>> >> >>

\* Mark m fills line i of board b.
filledBy(b, i, m) == \A k \in 1 .. 3 : b[Lines[i][k][1]][Lines[i][k][2]] = m

lineFilled(b, i) == \E m \in Marks : filledBy(b, i, m)

occupied(b) == Cardinality({p \in Idx \X Idx : b[p[1]][p[2]] \in Marks})

\* C26: for every 3x3 board over null, X and O, checkGameResult returns a mark
\* only if that mark fills a row, a column or a diagonal, 'draw' only if no
\* line is filled and the 9 cells are occupied, null exactly when no line is
\* filled and a cell is free, and, with several lines filled, the mark of the
\* first one in the order rows 0-2, columns 0-2, main diagonal, anti-diagonal.
C26_CheckGameResult ==
    retResult # NotCalled =>
       /\ retResult \in Marks \cup {"draw", NULL}
       /\ retResult \in Marks => \E i \in DOMAIN Lines : filledBy(argBoard, i, retResult)
       /\ retResult = "draw" =>
             (\A i \in DOMAIN Lines : ~lineFilled(argBoard, i)) /\ occupied(argBoard) = 9
       /\ retResult = NULL <=>
             (\A i \in DOMAIN Lines : ~lineFilled(argBoard, i)) /\ occupied(argBoard) < 9
       /\ \A i \in DOMAIN Lines :
             (lineFilled(argBoard, i) /\ \A j \in 1 .. i - 1 : ~lineFilled(argBoard, j))
                => filledBy(argBoard, i, retResult)

\* Row 1 is filled by O and row 2 by X: the call has returned O.
C26_Witness ==
    /\ filledBy(argBoard, 2, "O")
    /\ filledBy(argBoard, 3, "X")
    /\ ~lineFilled(argBoard, 1)
    /\ retResult = "O"

\* C27: as long as a game keeps its id, a cell of its board that holds X or O
\* holds the same mark after every step: no operation empties it or writes
\* the other mark over it.
C27_CellsNeverChange ==
    [][\A r \in RoomIds : \A q \in DOMAIN rooms' :
          rooms'[q].game.id = gameOf(r).id =>
             \A row \in Idx, col \in Idx :
                gameOf(r).board[row][col] \in Marks =>
                   rooms'[q].game.board[row][col] = gameOf(r).board[row][col]]_vars

\* Three moves into a game the first two cells still hold their marks.
C27_Witness ==
    \E r \in RoomIds : /\ gameOf(r).status = "playing"
                       /\ totalMoves(gameOf(r).board) = 3
                       /\ gameOf(r).board[0][0] \in Marks
                       /\ gameOf(r).board[1][1] = Opp(gameOf(r).board[0][0])
                       /\ gameOf(r).board[0][2] = gameOf(r).board[0][0]

\* C28: joinRoom with a room id the registry does not hold (never drawn, the
\* id of a game, or the id of a room that was deleted) fails with 'Room not
\* found' and changes no room, neither the connection-to-room map nor the
\* queue, and no mark or flag.
C28_JoinUnknownRoom ==
    \A c \in Conns : \A roomId \in 0 .. MaxUuid + 1 : \A coin \in BOOLEAN :
        roomId \notin RoomIds =>
           LET st == joinRoom(Cur, roomId, c, coin)
           IN /\ st.ret = Err("Room not found")
              /\ registryOf(st) = registryOf(Cur)

\* The first room was deleted when its last member left and another room
\* exists: joining by the old id is refused.
C28_Witness ==
    /\ 1 \notin RoomIds
    /\ RoomIds # {}
    /\ \E c \in Conns : /\ inRoom(c)
                         /\ joinRoom(Cur, 1, c, TRUE).ret.error = "Room not found"

\* C29: handleRematch(c) fails with 'Player not in any room' when c is
\* mapped to no room and with 'Game is not finished' when the game of c's
\* room is 'waiting' or 'playing', and in both cases no ready flag, no game,
\* no mark and nothing else of the registry changes.
C29_RematchRefused ==
    \A c \in Conns :
        LET st == handleRematch(Cur, c)
        IN /\ c \notin DOMAIN playerRooms =>
                 st.ret = Err("Player not in any room") /\ registryOf(st) = registryOf(Cur)
           /\ (inRoom(c) /\ gameOf(roomOf(c)).status \in {"waiting", "playing"}) =>
                 st.ret = Err("Game is not finished") /\ registryOf(st) = registryOf(Cur)

\* A player asks for a rematch in the middle of a game, and so does a
\* connection that has left its room.
C29_Witness ==
    \E c \in Conns : \E d \in Conns :
        /\ inRoom(c)
        /\ gameOf(roomOf(c)).status = "playing"
        /\ totalMoves(gameOf(roomOf(c)).board) >= 1
        /\ handleRematch(Cur, c).ret.error = "Game is not finished"
        /\ d \notin DOMAIN playerRooms
        /\ gameOf(roomOf(c)).id \in DOMAIN saveGameCalls
        /\ d \in {saveGameCalls[gameOf(roomOf(c)).id].game.player1,
                   saveGameCalls[gameOf(roomOf(c)).id].game.player2}
        /\ handleRematch(Cur, d).ret.error = "Player not in any room"

\* C30: in every 'playing' game with 2 entries in its player list the two
\* entries hold different marks, one X and one O, whatever operations came
\* before (a connection joining the room it is in, or a second room while a
\* first one still lists it).
C30_DistinctMarks ==
    \A r \in RoomIds :
        (gameOf(r).status = "playing" /\ Len(playersOf(r)) = 2) =>
           {symbol[playersOf(r)[1]], symbol[playersOf(r)[2]]} = Marks

\* The state with no makeMove invocation suspended.
Quiet == [Cur EXCEPT !.pending = EmptyBag]

\* Operation results a (with the invocations of pending suspended) and b
\* (with none suspended) are the same, and a left every suspended invocation
\* where it was.
sameOutcome(a, b) ==
    /\ a.ret = b.ret
    /\ a.rooms = b.rooms
    /\ a.playerRooms = b.playerRooms
    /\ a.queue = b.queue
    /\ a.symbol = b.symbol
    /\ a.isReady = b.isReady
    /\ a.uuid = b.uuid
    /\ a.saveGameCalls = b.saveGameCalls
    /\ a.statsCalls = b.statsCalls
    /\ a.pending = b.pending (+) pending

C32_JoinStartsOnlyFromWaiting ==
    \A c \in Conns : \A r \in RoomIds : \A coin \in BOOLEAN :
        gameOf(r).status # "waiting" =>
           LET g == joinRoom(Cur, r, c, coin).rooms[r].game
           IN /\ g.id = gameOf(r).id
              /\ g.board = gameOf(r).board
              /\ g.result = gameOf(r).result
              /\ g.players = playersOf(r)

\* The board of the getGameStats test: X at (0,0), O at (1,1), X at (2,2).
partlyFilled ==
    [createEmptyBoard EXCEPT ![0][0] = "X", ![1][1] = "O", ![2][2] = "X"]

C34_NewGameClearsReady ==
    [][\A r \in DOMAIN rooms' :
          (/\ rooms'[r].game.status = "playing"
           /\ (r \in RoomIds => rooms'[r].game.id # gameOf(r).id)) =>
             \A i \in DOMAIN rooms'[r].game.players :
                ~isReady'[rooms'[r].game.players[i]]]_vars

\* C35: no connection listed by a 'playing' game is in the matchmaking
\* queue, whether the second player came by findMatch or by joinRoom.
C35_ActivePlayersNotQueued ==
    \A r \in RoomIds : gameOf(r).status = "playing" =>
        \A i \in DOMAIN playersOf(r) : playersOf(r)[i] \notin Range(matchmakingQueue)

RECURSIVE leaveAll(_, _)
\* leaveRoom is called for the connections n, n - 1, ..., 1 in turn and
\* nothing else happens.
leaveAll(st, n) == IF n = 0 THEN st ELSE leaveAll(leaveRoom(st, n), n - 1)

\* C36: once every connection has called leaveRoom, with no call still
\* suspended and nothing else following, the registry holds no room, no
\* connection-to-room entry and an empty queue.
C36_AllLeaveEmptiesRegistry ==
    pending = EmptyBag =>
       LET st == leaveAll(Cur, NumConns)
       IN /\ st.rooms = <<>>
          /\ st.playerRooms = <<>>
          /\ st.queue = <<>>

\* What room r shows of its game in state st: the game (board, turn, status,
\* result, player list) and the mark and ready flag of each listed player.
viewOf(st, r) ==
    LET players == st.rooms[r].game.players
    IN [game |-> st.rooms[r].game,
        marks |-> [i \in DOMAIN players |-> st.symbol[players[i]]],
        ready |-> [i \in DOMAIN players |-> st.isReady[players[i]]]]

\* Every room there is now, other than those in addressed, is still there in
\* st and shows what it shows now.
othersKept(st, addressed) ==
    \A r \in (DOMAIN rooms) \ addressed :
        r \in DOMAIN st.rooms /\ viewOf(st, r) = viewOf(Cur, r)

\* C37: an operation addressed to one room (the room joined, the caller's
\* room, the room created or matched) leaves the game, the player list and
\* the marks and ready flags of the listed players of every other room as
\* they were, also when a connection is listed in both rooms.
C37_OtherRoomsUntouched ==
    \A c \in Peers :
        /\ othersKept(createRoom(Cur, c), {})
        /\ \A r \in RoomIds : \A coin \in BOOLEAN :
              othersKept(joinRoom(Cur, r, c, coin), {r})
        /\ inRoom(c) =>
              /\ othersKept(leaveRoom(Cur, c), {roomOf(c)})
              /\ othersKept(handleRematch(Cur, c), {roomOf(c)})
              /\ \A p \in MoveInputs(c) :
                    othersKept(makeMove(Cur, c, p[1], p[2]), {roomOf(c)})

\* C38: the game of every room agrees with its board: while it is being
\* played checkGameResult of the board is null, once it is finished the
\* stored result is checkGameResult of the board, and the numbers of X and
\* of O on the board differ by at most one.
C38_GameMatchesBoard ==
    \A r \in RoomIds :
        LET g == gameOf(r)
            nX == Cardinality({p \in Idx \X Idx : g.board[p[1]][p[2]] = "X"})
            nO == Cardinality({p \in Idx \X Idx : g.board[p[1]][p[2]] = "O"})
        IN /\ g.status = "playing" => checkGameResult(g.board) = NULL
           /\ g.status = "finished" => g.result = checkGameResult(g.board)
           /\ nX - nO \in -1 .. 1

\* A game that a mark has won with its third cell on a board of five marks.
C38_Witness ==
    \E r \in RoomIds :
        /\ gameOf(r).status = "finished"
        /\ gameOf(r).result \in Marks
        /\ occupied(gameOf(r).board) = 5

\* C39: the matchmaking queue never holds more than one connection id.
C39_QueueHoldsAtMostOne == Len(matchmakingQueue) <= 1

\* A connection waits in the queue while a game made by an earlier match is
\* being played.
C39_Witness ==
    /\ Len(matchmakingQueue) = 1
    /\ \E r \in RoomIds :
          /\ gameOf(r).status = "playing"
          /\ matchmakingQueue[1] \notin Range(gameOf(r).players)

\* C40: every entry c -> r of playerRooms names a room of the registry whose
\* player list holds c, and every queued connection has such an entry; so
\* makeMove, handleRematch and leaveRoom never answer 'Room not found' (for
\* leaveRoom: a mapped caller always succeeds) and makeMove never answers
\* 'Player not found'.
C40_MapEntriesAreListed ==
    /\ \A c \in DOMAIN playerRooms :
          /\ playerRooms[c] \in RoomIds
          /\ findPlayer(playersOf(playerRooms[c]), c)
    /\ \A i \in DOMAIN matchmakingQueue : matchmakingQueue[i] \in DOMAIN playerRooms
    /\ \A c \in Conns :
          /\ handleRematch(Cur, c).ret.error # "Room not found"
          /\ c \in DOMAIN playerRooms => leaveRoom(Cur, c).ret.success
          /\ \A row, col \in Idx :
                makeMove(Cur, c, row, col).ret.error \notin {"Room not found", "Player not found"}

\* A queued connection whose entry was overwritten: it is also listed in a
\* room other than the one it is mapped to.
C40_Witness ==
    \E c \in Range(matchmakingQueue) :
        \E r \in RoomIds \ {roomOf(c)} : findPlayer(playersOf(r), c)
====
